---- MODULE Spec2Model ----
(***************************************************************************)
(* Verification model of the black-skulls streaming analytics crate:       *)
(*   - CandleStream        (src/src/candle_stream.rs, src/src/quote.rs)    *)
(*   - VolatilityStream    (src/src/volatility_stream.rs)                  *)
(*   - BlackSchoolsStream  (src/src/black_schools_stream.rs)               *)
(*   - Black-Scholes price functions (src/src/black_schools.rs)            *)
(*                                                                         *)
(* Timestamps and durations are whole seconds since the Unix epoch, prices *)
(* and volumes are whole numbers, so every f64 operation of the candle     *)
(* aggregator (max, min, sum, quotient, floor, product) is exact here.     *)
(***************************************************************************)
EXTENDS Integers, Sequences, FiniteSets, TLC

\* ------------------------------------------------------------------ bounds
MaxTime == 6
MaxQuotes == 3
BucketDuration == 2

Timestamps == 0..MaxTime
Prices == {1, 2}
Volumes == {1, 2}
TransportErrors == {"e1", "e2"}

MaxMemory == 2
MaxTicks == 4
\* u32 is narrowed to U32Bits bits: u32::MAX is 2^U32Bits - 1
U32Bits == 5
FiniteValues == {-1, 0, 1, 2}
\* an f64 price: a finite value, or NaN, +infinity, -infinity
FinitePrices == {[class |-> "finite", v |-> x] : x \in FiniteValues}
NonFinitePrices == {[class |-> c, v |-> 0] : c \in {"nan", "inf", "neg_inf"}}
PriceInputs == FinitePrices \cup NonFinitePrices

MaxSpot == 3
\* spot and strike: whole currency units
Spots == 1..MaxSpot
\* rate: tenths per year; maturity: whole years with a whole square root
Rates == {-1, 0, 1}
Maturities == {0, 1, 4}
\* sigma and sigma * sqrt(T): halves
Sigmas == {-1, 0, 1, 2}
SqrtMaturitySigmas == {-1, 0, 1, 2, 4}
\* discount factors e^(-rate * maturity), in thousandths
Discounts == {670, 905, 1000, 1105, 1492}
\* prices of the live-pricing stream: positive spots, or non-finite
TickInputs == {[class |-> "finite", v |-> x] : x \in Spots} \cup NonFinitePrices

VARIABLES
    \* CandleStream fields
    candle, last, candle_start, candle_duration,
    \* result of the latest try_handle_quote / poll_next of CandleStream
    c_ret, c_poll, c_woken,
    \* the quote passed to the latest try_handle_quote and the number of calls
    c_in, c_calls,
    \* history of the run: quotes accepted, candles yielded, bucket starts passed
    \* over, kinds of error item yielded so far, state of the upstream stream
    fed, emitted, skipped, c_errors, quote_stream

VARIABLES
    \* VolatilityStream fields
    memory, last_variance, count, sum_prices,
    \* result of the latest try_handle_price / poll_next of VolatilityStream
    v_ret, v_poll, v_woken,
    \* the price passed to the latest try_handle_price and the number of calls
    v_in, v_calls,
    \* whether the build checks integer overflow (debug) or wraps (release)
    overflow_checks,
    \* history of the run: finite prices accepted, state of the upstream stream
    accepted, price_stream

VARIABLES
    \* BlackSchoolsStream fields (its estimator is the VolatilityStream above)
    strike, discount,
    \* result of the latest try_handle_price / poll_next of BlackSchoolsStream
    bs_ret, bs_poll, bs_woken,
    \* kinds of error item yielded, number of option prices yielded, upstream
    bs_errors, bs_yielded, bs_price_stream

VARIABLES
    \* arguments, results and position of one evaluation of the price functions
    pr_in, pr_out, pr_pc

candleVars == <<candle, last, candle_start, candle_duration, c_ret, c_poll,
                c_woken, c_in, c_calls, fed, emitted, skipped, c_errors,
                quote_stream>>

volVars == <<memory, last_variance, count, sum_prices, v_ret, v_poll, v_woken,
             v_in, v_calls, overflow_checks, accepted, price_stream>>

bsVars == <<strike, discount, bs_ret, bs_poll, bs_woken, bs_errors, bs_yielded,
            bs_price_stream>>

prVars == <<pr_in, pr_out, pr_pc>>

vars == <<candleVars, volVars, bsVars, prVars>>

\* ------------------------------------------------------------- quote.rs
None == [some |-> FALSE]
Some(v) == [some |-> TRUE, val |-> v]

Max(a, b) == IF a >= b THEN a ELSE b
Min(a, b) == IF a <= b THEN a ELSE b

Quote(t, p, v) == [timestamp |-> t, price |-> p, volume |-> v]
Quotes == {Quote(t, p, v) : t \in Timestamps, p \in Prices, v \in Volumes}

UNIX_EPOCH == 0

\* #[derive(Default)] Candle: every field 0.0
CandleDefault == [open |-> 0, high |-> 0, low |-> 0, close |-> 0, volume |-> 0]

\* variant: only open and volume are taken from the quote
new_candle_open_only(q) ==
    [CandleDefault EXCEPT !.open = q.price, !.volume = q.volume]

\* variant: the new candle does not take the quote's volume
new_candle_no_volume(q) ==
    [CandleDefault EXCEPT !.open = q.price, !.high = q.price, !.low = q.price]

\* Quote::new_candle: OHLV from the quote, close left at its default
new_candle(q) ==
    [CandleDefault EXCEPT !.open = q.price, !.high = q.price,
                          !.low = q.price, !.volume = q.volume]

\* variant: the volume is assigned where it is accumulated
update_candle_assign(q, c) ==
    [c EXCEPT !.high = Max(c.high, q.price),
              !.low = Min(c.low, q.price),
              !.volume = q.volume]

\* Quote::update_candle
update_candle(q, c) ==
    [c EXCEPT !.high = Max(c.high, q.price),
              !.low = Min(c.low, q.price),
              !.volume = c.volume + q.volume]

\* Quote::close_candle
close_candle(q, c) == [c EXCEPT !.close = q.price]

\* ------------------------------------------------------- candle_stream.rs
\* CandleStream::new (candle_duration.is_positive() is asserted)
CandleNew ==
    /\ candle_duration = BucketDuration
    /\ candle = CandleDefault
    /\ last = None
    /\ candle_start = UNIX_EPOCH
    /\ c_ret = [kind |-> "init"]
    /\ c_poll = [kind |-> "init"]
    /\ c_woken = FALSE
    /\ c_in = None
    /\ c_calls = 0
    /\ fed = <<>>
    /\ emitted = <<>>
    /\ skipped = {}
    /\ c_errors = {}
    /\ quote_stream = "open"

\* variant: the ordering check rejects an equal timestamp as well
IsOldQuoteStrict(q, l) == q.timestamp <= l.timestamp

\* quote.timestamp < last.timestamp
IsOldQuote(q, l) == q.timestamp < l.timestamp

\* variant: a quote exactly on the bucket end stays in the bucket
is_new_candle_late(q) == candle_start + candle_duration < q.timestamp

\* self.candle_start + self.candle_duration <= quote.timestamp
is_new_candle(q) == candle_start + candle_duration <= q.timestamp

\* variant: only the empty buckets between the two quotes are counted
skipped_candles_empty_only(q) == (q.timestamp - candle_start) \div candle_duration - 1

\* variant: the bucket start always advances by a single duration
skipped_candles_one(q) == 1

\* ((quote.timestamp - self.candle_start) / self.candle_duration).floor()
skipped_candles(q) == (q.timestamp - candle_start) \div candle_duration

\* CandleStream::try_handle_quote; the value returned is left in c_ret
try_handle_quote(q) ==
    IF ~last.some
    THEN /\ last' = Some(q)
         /\ c_ret' = [kind |-> "ok_none"]
         /\ fed' = Append(fed, q)
         /\ UNCHANGED <<candle, candle_start, skipped>>
    ELSE IF IsOldQuote(q, last.val)
    THEN /\ c_ret' = [kind |-> "err", err |-> "old_quote"]
         /\ UNCHANGED <<candle, last, candle_start, fed, skipped>>
    ELSE IF is_new_candle(q)
    THEN /\ c_ret' = [kind |-> "ok_some",
                      candle |-> close_candle(last.val, candle),
                      start |-> candle_start]
         /\ candle' = new_candle(q)
         /\ candle_start' = candle_start + candle_duration * skipped_candles(q)
         /\ skipped' = skipped \cup
                {candle_start + j * candle_duration : j \in 1..(skipped_candles(q) - 1)}
         /\ last' = Some(q)
         /\ fed' = Append(fed, q)
    ELSE /\ candle' = update_candle(q, candle)
         /\ c_ret' = [kind |-> "ok_none"]
         /\ last' = Some(q)
         /\ fed' = Append(fed, q)
         /\ UNCHANGED <<candle_start, skipped>>

\* variant: Ok(None) is answered with Pending without waking the task
CandlePollQuoteNoWake(q) ==
    /\ quote_stream = "open"
    /\ c_calls < MaxQuotes
    /\ c_in' = Some(q)
    /\ c_calls' = c_calls + 1
    /\ try_handle_quote(q)
    /\ c_poll' = CASE c_ret'.kind = "ok_some" ->
                        [kind |-> "ready_ok", candle |-> c_ret'.candle,
                         start |-> c_ret'.start]
                   [] c_ret'.kind = "ok_none" -> [kind |-> "pending"]
                   [] OTHER -> [kind |-> "ready_err", err |-> c_ret'.err]
    /\ c_woken' = FALSE
    /\ emitted' = IF c_ret'.kind = "ok_some"
                  THEN Append(emitted, [candle |-> c_ret'.candle,
                                        start |-> c_ret'.start])
                  ELSE emitted
    /\ c_errors' = IF c_ret'.kind = "err" THEN c_errors \cup {"old_quote"}
                   ELSE c_errors
    /\ UNCHANGED <<candle_duration, quote_stream, volVars, bsVars, prVars>>

\* variant: on Ok(None) the upstream is polled again within the activation
CandlePollQuoteDrain(q) ==
    /\ quote_stream = "open"
    /\ c_calls < MaxQuotes
    /\ c_in' = Some(q)
    /\ try_handle_quote(q)
    /\ c_calls' = IF c_ret'.kind = "ok_none" THEN c_calls + 2 ELSE c_calls + 1
    /\ c_poll' = CASE c_ret'.kind = "ok_some" ->
                        [kind |-> "ready_ok", candle |-> c_ret'.candle,
                         start |-> c_ret'.start]
                   [] c_ret'.kind = "ok_none" -> [kind |-> "pending"]
                   [] OTHER -> [kind |-> "ready_err", err |-> c_ret'.err]
    /\ c_woken' = (c_ret'.kind = "ok_none")
    /\ emitted' = IF c_ret'.kind = "ok_some"
                  THEN Append(emitted, [candle |-> c_ret'.candle,
                                        start |-> c_ret'.start])
                  ELSE emitted
    /\ c_errors' = IF c_ret'.kind = "err" THEN c_errors \cup {"old_quote"}
                   ELSE c_errors
    /\ UNCHANGED <<candle_duration, quote_stream, volVars, bsVars, prVars>>

\* CandleStream::poll_next, upstream arm Poll::Ready(Some(Ok(quote)))
CandlePollQuote(q) ==
    /\ quote_stream = "open"
    /\ c_calls < MaxQuotes
    /\ c_in' = Some(q)
    /\ c_calls' = c_calls + 1
    /\ try_handle_quote(q)
    /\ c_poll' = CASE c_ret'.kind = "ok_some" ->
                        [kind |-> "ready_ok", candle |-> c_ret'.candle,
                         start |-> c_ret'.start]
                   [] c_ret'.kind = "ok_none" -> [kind |-> "pending"]
                   [] OTHER -> [kind |-> "ready_err", err |-> c_ret'.err]
    /\ c_woken' = (c_ret'.kind = "ok_none")
    /\ emitted' = IF c_ret'.kind = "ok_some"
                  THEN Append(emitted, [candle |-> c_ret'.candle,
                                        start |-> c_ret'.start])
                  ELSE emitted
    /\ c_errors' = IF c_ret'.kind = "err" THEN c_errors \cup {"old_quote"}
                   ELSE c_errors
    /\ UNCHANGED <<candle_duration, quote_stream, volVars, bsVars, prVars>>

\* CandleStream::poll_next, upstream arm Poll::Ready(Some(Err(err)))
CandlePollErr(e) ==
    /\ quote_stream = "open"
    /\ c_poll' = [kind |-> "ready_err", err |-> e]
    /\ c_woken' = FALSE
    /\ c_errors' = c_errors \cup {"upstream"}
    /\ UNCHANGED <<candle, last, candle_start, candle_duration, c_ret, c_in,
                   c_calls, fed, emitted, skipped, quote_stream, volVars, bsVars, prVars>>

\* variant: when the upstream ends the open candle is closed and yielded
CandlePollEndFlush ==
    /\ quote_stream = "open"
    /\ quote_stream' = "ended"
    /\ c_poll' = IF last.some
                 THEN [kind |-> "ready_ok",
                       candle |-> close_candle(last.val, candle),
                       start |-> candle_start]
                 ELSE [kind |-> "ready_none"]
    /\ emitted' = IF last.some
                  THEN Append(emitted, [candle |-> close_candle(last.val, candle),
                                        start |-> candle_start])
                  ELSE emitted
    /\ c_woken' = FALSE
    /\ UNCHANGED <<candle, last, candle_start, candle_duration, c_ret, c_in,
                   c_calls, fed, skipped, c_errors, volVars, bsVars, prVars>>

\* CandleStream::poll_next, upstream arm Poll::Ready(None)
CandlePollEnd ==
    /\ quote_stream = "open"
    /\ quote_stream' = "ended"
    /\ c_poll' = [kind |-> "ready_none"]
    /\ c_woken' = FALSE
    /\ UNCHANGED <<candle, last, candle_start, candle_duration, c_ret, c_in,
                   c_calls, fed, emitted, skipped, c_errors, volVars, bsVars, prVars>>

\* CandleStream::poll_next, upstream arm Poll::Pending
CandlePollPending ==
    /\ quote_stream = "open"
    /\ c_poll' = [kind |-> "pending"]
    /\ c_woken' = FALSE
    /\ UNCHANGED <<candle, last, candle_start, candle_duration, c_ret, c_in,
                   c_calls, fed, emitted, skipped, c_errors, quote_stream,
                   volVars, bsVars, prVars>>

\* ---------------------------------------------------- volatility_stream.rs
\* f64 values of the estimator are exact rationals [n, d] with d > 0, kept in
\* lowest terms so that equal values are equal records; d = 0 stands for the
\* non-finite values: [1, 0] is +infinity, [-1, 0] -infinity and [0, 0] NaN
RECURSIVE Gcd(_, _)
Gcd(a, b) == IF b = 0 THEN a ELSE Gcd(b, a % b)

Abs(x) == IF x < 0 THEN -x ELSE x

Rat(n, d) ==
    LET g == Gcd(Abs(n), d)
    IN IF d = 0
       THEN [n |-> IF n > 0 THEN 1 ELSE IF n < 0 THEN -1 ELSE 0, d |-> 0]
       ELSE [n |-> n \div g, d |-> d \div g]

RatZero == [n |-> 0, d |-> 1]

\* f64::sqrt: the root is carried by its square; a negative or NaN argument
\* gives NaN
sqrt(x) ==
    IF x.n < 0 \/ (x.n = 0 /\ x.d = 0) THEN [nan |-> TRUE]
    ELSE [nan |-> FALSE, sq |-> x]

\* price.is_infinite() || price.is_nan()
is_non_finite(price) == price.class \in {"inf", "neg_inf"} \/ price.class = "nan"

\* VolatilityStream::new
VolNew(m) ==
    /\ memory = m
    /\ last_variance = RatZero
    /\ count = 0
    /\ sum_prices = 0
    /\ v_ret = [kind |-> "init"]
    /\ v_poll = [kind |-> "init"]
    /\ v_woken = FALSE
    /\ v_in = None
    /\ v_calls = 0
    /\ accepted = <<>>
    /\ price_stream = "open"

\* the value a u32 operation leaves when overflow is not checked
wrapping(x) == x % (2 ^ U32Bits)

\* one of the u32 operations of try_handle_price leaves the range of u32
u32_overflow ==
    \/ memory - 1 < 0
    \/ (memory - 1) * count >= 2 ^ U32Bits
    \/ memory + 1 >= 2 ^ U32Bits
    \/ count + 1 >= 2 ^ U32Bits
    \/ wrapping(memory + 1) * wrapping(count + 1) >= 2 ^ U32Bits

\* u32::from(self.memory - 1) * u32::from(self.count)
nominator1 == wrapping(wrapping(memory - 1) * count)

\* u32::from(self.memory + 1) * u32::from(self.count + 1)
denominator == wrapping(wrapping(memory + 1) * wrapping(count + 1))

\* (nominator1 * self.last_variance + nominator2 * price * self.sum_prices)
\*     / denominator, with nominator2 = 4f64
variance(price) ==
    Rat(nominator1 * last_variance.n + 4 * price.v * sum_prices * last_variance.d,
        last_variance.d * denominator)

\* variant: the data cleaning runs after the observation was counted
try_handle_price_count_first(price) ==
    IF is_non_finite(price)
    THEN /\ v_ret' = [kind |-> "none"]
         /\ count' = count + 1
         /\ UNCHANGED <<memory, last_variance, sum_prices, accepted>>
    ELSE IF u32_overflow /\ overflow_checks
    THEN /\ v_ret' = [kind |-> "panic"]
         /\ UNCHANGED <<memory, last_variance, count, sum_prices, accepted>>
    ELSE /\ sum_prices' = sum_prices + price.v
         /\ count' = wrapping(count + 1)
         /\ last_variance' = variance(price)
         /\ v_ret' = [kind |-> "some", value |-> sqrt(variance(price))]
         /\ accepted' = Append(accepted, price.v)
         /\ UNCHANGED memory

\* VolatilityStream::try_handle_price; the value returned is left in v_ret
try_handle_price(price) ==
    IF is_non_finite(price)
    THEN /\ v_ret' = [kind |-> "none"]
         /\ UNCHANGED <<memory, last_variance, count, sum_prices, accepted>>
    ELSE IF u32_overflow /\ overflow_checks
    THEN /\ v_ret' = [kind |-> "panic"]
         /\ UNCHANGED <<memory, last_variance, count, sum_prices, accepted>>
    ELSE /\ sum_prices' = sum_prices + price.v
         /\ count' = wrapping(count + 1)
         /\ last_variance' = variance(price)
         /\ v_ret' = [kind |-> "some", value |-> sqrt(variance(price))]
         /\ accepted' = Append(accepted, price.v)
         /\ UNCHANGED memory

\* VolatilityStream::poll_next, upstream arm Poll::Ready(Some(priced))
VolPollPrice(price) ==
    /\ price_stream = "open"
    /\ v_calls < MaxTicks
    /\ v_ret.kind # "panic"
    /\ v_in' = Some(price)
    /\ v_calls' = v_calls + 1
    /\ try_handle_price(price)
    /\ v_poll' = CASE v_ret'.kind = "some" ->
                        [kind |-> "ready", value |-> v_ret'.value]
                   [] v_ret'.kind = "none" -> [kind |-> "pending"]
                   [] OTHER -> [kind |-> "panic"]
    /\ v_woken' = (v_ret'.kind = "none")
    /\ UNCHANGED <<overflow_checks, price_stream, candleVars, bsVars, prVars>>

\* VolatilityStream::poll_next, upstream arm Poll::Ready(None)
VolPollEnd ==
    /\ price_stream = "open"
    /\ v_ret.kind # "panic"
    /\ price_stream' = "ended"
    /\ v_poll' = [kind |-> "ready_none"]
    /\ v_woken' = FALSE
    /\ UNCHANGED <<memory, last_variance, count, sum_prices, v_ret, v_in,
                   v_calls, overflow_checks, accepted, candleVars, bsVars,
                   prVars>>

\* VolatilityStream::poll_next, upstream arm Poll::Pending
VolPollPending ==
    /\ price_stream = "open"
    /\ v_ret.kind # "panic"
    /\ v_poll' = [kind |-> "pending"]
    /\ v_woken' = FALSE
    /\ UNCHANGED <<memory, last_variance, count, sum_prices, v_ret, v_in,
                   v_calls, overflow_checks, accepted, price_stream, candleVars,
                   bsVars, prVars>>

\* ------------------------------------------------------- black_schools.rs
\* Fixed-point f64: spot and strike in whole units, discount in thousandths,
\* sigma, sqrt(T), sigma*sqrt(T) and d1 in halves, logarithms in thousandths,
\* probabilities in ten-thousandths, option prices in units of 10^-7.

\* f64::ln of a whole number, in thousandths
ln_whole(n) == <<0, 693, 1099, 1386, 1609, 1792, 1946, 2079>>[n]

\* f64::ln of a discount factor, in thousandths
ln_discount(d) ==
    CASE d = 670 -> -400 [] d = 905 -> -100 [] d = 1000 -> 0
      [] d = 1105 -> 100 [] d = 1492 -> 400

\* f64::exp of -x, x in tenths, in thousandths
exp_neg(x) ==
    CASE x = 4 -> 670 [] x = 1 -> 905 [] x = 0 -> 1000
      [] x = -1 -> 1105 [] x = -4 -> 1492

\* f64::sqrt of a maturity
maturity_sqrt(t) == CHOOSE r \in 0..t : r * r = t

\* (x / SQRT_2).error(): erf(x / sqrt 2), odd in x, x in halves
error(x) ==
    LET tab == <<0, 3830, 6826, 8664, 9544, 9876, 9974, 9996, 10000>>
        a == IF Abs(x) > 8 THEN 8 ELSE Abs(x)
    IN IF x < 0 THEN -tab[a + 1] ELSE tab[a + 1]

\* cum_norm: error * 0.5 + 0.5
cum_norm(x) == (error(x) + 10000) \div 2

\* d1: (s / (k * discount)).ln() / sqrt_maturity_sigma + 0.5 * sqrt_maturity_sigma
\* rounded to the nearest half
d1(s, k, disc, sms) ==
    LET l == ln_whole(s) - ln_whole(k) - ln_discount(disc)
    IN (2 * (4 * l + 500 * sms * sms) + 1000 * sms) \div (2000 * sms)

\* max_or_zero
max_or_zero(v) == IF v > 0 THEN v ELSE 0

\* call_discount
call_discount(s, k, disc, sms) ==
    IF sms > 0
    THEN s * 1000 * cum_norm(d1(s, k, disc, sms))
            - k * disc * cum_norm(d1(s, k, disc, sms) - sms)
    ELSE max_or_zero((s - k) * 10000000)

\* call
call(s, k, rate, sigma, maturity) ==
    call_discount(s, k, exp_neg(rate * maturity), maturity_sqrt(maturity) * sigma)

\* variant: the put leg uses cum_norm(d1) where cum_norm(-d1) is meant
put_discount_sign(s, k, disc, sms) ==
    IF sms > 0
    THEN k * disc * cum_norm(sms - d1(s, k, disc, sms))
            - s * 1000 * cum_norm(d1(s, k, disc, sms))
    ELSE max_or_zero((k - s) * 10000000)

\* put_discount
put_discount(s, k, disc, sms) ==
    IF sms > 0
    THEN k * disc * cum_norm(sms - d1(s, k, disc, sms))
            - s * 1000 * cum_norm(-d1(s, k, disc, sms))
    ELSE max_or_zero((k - s) * 10000000)

\* put
put(s, k, rate, sigma, maturity) ==
    put_discount(s, k, exp_neg(rate * maturity), maturity_sqrt(maturity) * sigma)

\* inc_norm: the standard normal density, even in x, x in halves, in
\* ten-thousandths
inc_norm(x) ==
    LET tab == <<3989, 3521, 2420, 1295, 540, 175, 44, 9, 1>>
    IN IF Abs(x) > 8 THEN 0 ELSE tab[Abs(x) + 1]

\* variant: the degenerate branch tests s >= k
call_delta_at_the_money(s, k, rate, sigma, maturity) ==
    IF maturity_sqrt(maturity) * sigma > 0
    THEN cum_norm(d1(s, k, exp_neg(rate * maturity),
                     maturity_sqrt(maturity) * sigma))
    ELSE IF s >= k THEN 10000 ELSE 0

\* call_delta, in ten-thousandths
call_delta(s, k, rate, sigma, maturity) ==
    IF maturity_sqrt(maturity) * sigma > 0
    THEN cum_norm(d1(s, k, exp_neg(rate * maturity),
                     maturity_sqrt(maturity) * sigma))
    ELSE IF s > k THEN 10000 ELSE 0

\* call_gamma: inc_norm(d1) / (s * sqrt_maturity_sigma), in ten-thousandths
call_gamma(s, k, rate, sigma, maturity) ==
    LET sms == maturity_sqrt(maturity) * sigma
    IN IF sms > 0
       THEN (2 * inc_norm(d1(s, k, exp_neg(rate * maturity), sms)))
                \div (s * sms)
       ELSE 0

\* call_vega: s * inc_norm(d1) * sqrt_maturity_sigma / sigma, in
\* ten-thousandths
call_vega(s, k, rate, sigma, maturity) ==
    LET sms == maturity_sqrt(maturity) * sigma
    IN IF sms > 0
       THEN (s * inc_norm(d1(s, k, exp_neg(rate * maturity), sms)) * sms)
                \div sigma
       ELSE 0

\* call_theta, rate in tenths, in units of 10^-8
call_theta(s, k, rate, sigma, maturity) ==
    LET sqrt_t == maturity_sqrt(maturity)
        sms == sqrt_t * sigma
        disc == exp_neg(rate * maturity)
    IN IF sms > 0
       THEN ((-s) * inc_norm(d1(s, k, disc, sms)) * sigma * 10000)
                \div (4 * sqrt_t)
            - rate * k * disc * cum_norm(d1(s, k, disc, sms) - sms)
       ELSE 0

\* call_rho, in units of 10^-7
call_rho(s, k, rate, sigma, maturity) ==
    LET sms == maturity_sqrt(maturity) * sigma
        disc == exp_neg(rate * maturity)
    IN IF sms > 0
       THEN k * disc * maturity * cum_norm(d1(s, k, disc, sms) - sms)
       ELSE 0

\* put_delta, in ten-thousandths
put_delta(s, k, rate, sigma, maturity) ==
    IF maturity_sqrt(maturity) * sigma > 0
    THEN cum_norm(d1(s, k, exp_neg(rate * maturity),
                     maturity_sqrt(maturity) * sigma)) - 10000
    ELSE IF k > s THEN -10000 ELSE 0

\* put_gamma: same as call
put_gamma(s, k, rate, sigma, maturity) == call_gamma(s, k, rate, sigma, maturity)

\* put_vega: same as call
put_vega(s, k, rate, sigma, maturity) == call_vega(s, k, rate, sigma, maturity)

\* put_theta, in units of 10^-8
put_theta(s, k, rate, sigma, maturity) ==
    LET sqrt_t == maturity_sqrt(maturity)
        sms == sqrt_t * sigma
        disc == exp_neg(rate * maturity)
    IN IF sms > 0
       THEN ((-s) * inc_norm(d1(s, k, disc, sms)) * sigma * 10000)
                \div (4 * sqrt_t)
            + rate * k * disc * cum_norm((-d1(s, k, disc, sms)) + sms)
       ELSE 0

\* variant: the leading -1.0 of put_rho is dropped
put_rho_unsigned(s, k, rate, sigma, maturity) ==
    LET sms == maturity_sqrt(maturity) * sigma
        disc == exp_neg(rate * maturity)
    IN IF sms > 0
       THEN k * disc * maturity * cum_norm((-d1(s, k, disc, sms)) + sms)
       ELSE 0

\* put_rho, in units of 10^-7
put_rho(s, k, rate, sigma, maturity) ==
    LET sms == maturity_sqrt(maturity) * sigma
        disc == exp_neg(rate * maturity)
    IN IF sms > 0
       THEN (-1) * k * disc * maturity * cum_norm((-d1(s, k, disc, sms)) + sms)
       ELSE 0

\* the standalone functions collected under the names of PricesAndGreeks
Standalone(s, k, rate, sigma, maturity) ==
    [call_price |-> call(s, k, rate, sigma, maturity),
     call_delta |-> call_delta(s, k, rate, sigma, maturity),
     call_gamma |-> call_gamma(s, k, rate, sigma, maturity),
     call_theta |-> call_theta(s, k, rate, sigma, maturity),
     call_vega |-> call_vega(s, k, rate, sigma, maturity),
     call_rho |-> call_rho(s, k, rate, sigma, maturity),
     put_price |-> put(s, k, rate, sigma, maturity),
     put_delta |-> put_delta(s, k, rate, sigma, maturity),
     put_gamma |-> put_gamma(s, k, rate, sigma, maturity),
     put_theta |-> put_theta(s, k, rate, sigma, maturity),
     put_vega |-> put_vega(s, k, rate, sigma, maturity),
     put_rho |-> put_rho(s, k, rate, sigma, maturity)]

\* compute_all
compute_all(stock, k, rate, sigma, maturity) ==
    LET disc == exp_neg(rate * maturity)
        sqrt_maturity == maturity_sqrt(maturity)
        sms == sqrt_maturity * sigma
        k_discount == k * disc
        dd1 == d1(stock, k, disc, sms)
        cdf_d1 == cum_norm(dd1)
        cdf_d2 == cum_norm(dd1 - sms)
        pdf_d1 == inc_norm(dd1)
        call_price == stock * 1000 * cdf_d1 - k_discount * cdf_d2
        gamma == (2 * pdf_d1) \div (stock * sms)
        vega == (stock * pdf_d1 * sms) \div sigma
        decay == ((-stock) * pdf_d1 * sigma * 10000) \div (4 * sqrt_maturity)
    IN IF sms > 0
       THEN [call_price |-> call_price,
             call_delta |-> cdf_d1,
             call_gamma |-> gamma,
             call_theta |-> decay - rate * k_discount * cdf_d2,
             call_vega |-> vega,
             call_rho |-> k_discount * maturity * cdf_d2,
             put_price |-> call_price + k_discount * 10000 - stock * 10000000,
             put_delta |-> cdf_d1 - 10000,
             put_gamma |-> gamma,
             put_theta |-> decay + rate * k_discount * (10000 - cdf_d2),
             put_vega |-> vega,
             put_rho |-> (-1) * k_discount * maturity * (10000 - cdf_d2)]
       ELSE [call_price |-> max_or_zero((stock - k) * 10000000),
             call_delta |-> IF stock > k THEN 10000 ELSE 0,
             call_gamma |-> 0,
             call_theta |-> 0,
             call_vega |-> 0,
             call_rho |-> 0,
             put_price |-> max_or_zero((k - stock) * 10000000),
             put_delta |-> IF k > stock THEN -10000 ELSE 0,
             put_gamma |-> 0,
             put_theta |-> 0,
             put_vega |-> 0,
             put_rho |-> 0]

PricingNew ==
    /\ pr_in \in [s : Spots, k : Spots, rate : Rates, sigma : Sigmas,
                  maturity : Maturities, discount : Discounts,
                  sqrt_maturity_sigma : SqrtMaturitySigmas]
    /\ pr_out = [call |-> 0, put |-> 0]
    /\ pr_pc = "input"

PricingIdle ==
    /\ pr_in = [s |-> 1, k |-> 1, rate |-> 0, sigma |-> 0, maturity |-> 0,
                discount |-> 1000, sqrt_maturity_sigma |-> 0]
    /\ pr_out = [call |-> 0, put |-> 0]
    /\ pr_pc = "input"

\* call_discount and put_discount on (s, k, discount, sqrt_maturity_sigma)
EvalDiscount ==
    /\ pr_pc = "input"
    /\ pr_out' = [call |-> call_discount(pr_in.s, pr_in.k, pr_in.discount,
                                         pr_in.sqrt_maturity_sigma),
                  put |-> put_discount(pr_in.s, pr_in.k, pr_in.discount,
                                       pr_in.sqrt_maturity_sigma)]
    /\ pr_pc' = "discount"
    /\ UNCHANGED <<pr_in, candleVars, volVars, bsVars>>

\* call and put on (s, k, rate, sigma, maturity)
EvalRate ==
    /\ pr_pc = "input"
    /\ pr_out' = [call |-> call(pr_in.s, pr_in.k, pr_in.rate, pr_in.sigma,
                                pr_in.maturity),
                  put |-> put(pr_in.s, pr_in.k, pr_in.rate, pr_in.sigma,
                              pr_in.maturity)]
    /\ pr_pc' = "rate"
    /\ UNCHANGED <<pr_in, candleVars, volVars, bsVars>>

\* the standalone price and Greek functions on (s, k, rate, sigma, maturity)
EvalGreeks ==
    /\ pr_pc = "input"
    /\ pr_out' = Standalone(pr_in.s, pr_in.k, pr_in.rate, pr_in.sigma,
                            pr_in.maturity)
    /\ pr_pc' = "greeks"
    /\ UNCHANGED <<pr_in, candleVars, volVars, bsVars>>

\* compute_all on (stock, strike, rate, sigma, maturity)
EvalAll ==
    /\ pr_pc = "input"
    /\ pr_out' = compute_all(pr_in.s, pr_in.k, pr_in.rate, pr_in.sigma,
                             pr_in.maturity)
    /\ pr_pc' = "all"
    /\ UNCHANGED <<pr_in, candleVars, volVars, bsVars>>

\* ------------------------------------------- black_schools.rs, implied vol
\* An f64 that may leave the finite range: sigma iterates (halves), objective
\* values (units of 10^-7) and vegas (ten-thousandths).
Finite(v) == [class |-> "finite", v |-> v]

NaN == [class |-> "nan", v |-> 0]

Infinity == [class |-> "inf", v |-> 0]

NegInfinity == [class |-> "neg_inf", v |-> 0]

\* f64 subtraction a - b
f64_sub(a, b) ==
    CASE a.class = "nan" \/ b.class = "nan" -> NaN
      [] a.class = "finite" /\ b.class = "finite" -> Finite(a.v - b.v)
      [] a.class = b.class -> NaN
      [] a.class = "inf" \/ b.class = "neg_inf" -> Infinity
      [] OTHER -> NegInfinity

\* a / b for b > 0, rounded to the nearest whole number
Round(a, b) == (2 * a + b) \div (2 * b)

\* floor of the square root of x, 0 <= lo * lo <= x < hi * hi
RECURSIVE sqrt_between(_, _, _)
sqrt_between(lo, hi, x) ==
    IF hi - lo <= 1 THEN lo
    ELSE LET mid == (lo + hi) \div 2
         IN IF mid * mid <= x THEN sqrt_between(mid, hi, x)
            ELSE sqrt_between(lo, mid, x)

\* approximate_vol (Corrado and Miller): the price in units of 10^-7, the
\* intermediate values in thousandths or half thousandths, the result in
\* halves; SQRT_TWO_PI is 2.507, PI is 22/7; a zero maturity divides by 0.0
approximate_vol(price, s, k, rate, maturity) ==
    LET x == k * exp_neg(rate * maturity)
        helper_1 == s * 1000 - x
        c1 == 2 * (price \div 10000) - helper_1
        c2 == c1 * c1
        c3 == (4 * helper_1 * helper_1 * 7) \div 22
        bridge_1 == c2 - c3
        bridge_m == IF bridge_1 > 0 THEN sqrt_between(0, 32768, bridge_1) ELSE 0
        top == 2507 * (c1 + bridge_m)
        sqrt_t == maturity_sqrt(maturity)
    IN IF sqrt_t = 0
       THEN IF top > 0 THEN Infinity ELSE IF top < 0 THEN NegInfinity ELSE NaN
       ELSE Finite(Round(top, 1000 * (s * 1000 + x) * sqrt_t))

\* a finite sigma beyond which cum_norm and inc_norm no longer change
saturated(v) == IF v > 40 THEN 40 ELSE v

\* call(s, k, rate, sigma, maturity) at a sigma that may not be finite: an
\* infinite sigma with a positive maturity makes d1 - sqrt_maturity_sigma NaN;
\* a NaN or negative product fails `sqrt_maturity_sigma > 0.0`
call_at(s, k, rate, x, maturity) ==
    IF x.class = "finite" THEN Finite(call(s, k, rate, saturated(x.v), maturity))
    ELSE IF x.class = "inf" /\ maturity > 0 THEN NaN
    ELSE Finite(call(s, k, rate, 0, maturity))

\* put at a sigma that may not be finite
put_at(s, k, rate, x, maturity) ==
    IF x.class = "finite" THEN Finite(put(s, k, rate, saturated(x.v), maturity))
    ELSE IF x.class = "inf" /\ maturity > 0 THEN NaN
    ELSE Finite(put(s, k, rate, 0, maturity))

\* call_vega (and put_vega, which is call_vega) at a sigma that may not be
\* finite
vega_at(s, k, rate, x, maturity) ==
    IF x.class = "finite"
    THEN Finite(call_vega(s, k, rate, saturated(x.v), maturity))
    ELSE IF x.class = "inf" /\ maturity > 0 THEN NaN
    ELSE Finite(call_vega(s, k, rate, 0, maturity))

\* put_vega at a sigma that may not be finite: same as call
put_vega_at(s, k, rate, x, maturity) == vega_at(s, k, rate, x, maturity)

\* obj_fn of call_iv_guess and of put_iv_guess: price(sigma) - price
obj_fn(side, price, s, k, rate, x, maturity) ==
    IF side = "call"
    THEN f64_sub(call_at(s, k, rate, x, maturity), Finite(price))
    ELSE f64_sub(put_at(s, k, rate, x, maturity), Finite(price))

\* dfn of call_iv_guess and of put_iv_guess
dfn(side, s, k, rate, x, maturity) ==
    IF side = "call" THEN vega_at(s, k, rate, x, maturity)
    ELSE put_vega_at(s, k, rate, x, maturity)

\* precision = 0.000001, in units of 10^-7
precision == 10

\* iterations
iterations == 10000

\* Newton-Raphson step f(x) / f'(x) in halves of sigma, f in units of 10^-7
\* and f' in ten-thousandths: a zero vega divides by 0.0
deviation(f, d) ==
    IF f.class = "nan" \/ d.class = "nan" THEN NaN
    ELSE IF d.v = 0
    THEN IF f.v > 0 THEN Infinity ELSE IF f.v < 0 THEN NegInfinity ELSE NaN
    ELSE Finite(Round(f.v, 500 * d.v))

\* variant: convergence is tested on the size of the step
converged_on_step(f, dev) == dev.class = "finite" /\ dev.v = 0

\* nrfind::find_root, convergence test: |f(sigma)| within the tolerance
converged(f, dev) == f.class = "finite" /\ Abs(f.v) <= precision

\* a run of find_root: the current iterate, the iterations done, the result
Running(x0) == [x |-> x0, n |-> 0, ret |-> [kind |-> "running"]]

\* nrfind::find_root(&obj_fn, &dfn, initial_guess, precision, iterations),
\* one iteration: Ok(sigma) when converged, otherwise the Newton-Raphson
\* update, and Err(last iterate) when the iterations are used up
find_root(side, price, s, k, rate, maturity, run) ==
    LET f == obj_fn(side, price, s, k, rate, run.x, maturity)
        dev == deviation(f, dfn(side, s, k, rate, run.x, maturity))
        next == f64_sub(run.x, dev)
    IN IF run.ret.kind # "running" THEN run
       ELSE IF converged(f, dev)
       THEN [run EXCEPT !.ret = [kind |-> "ok", sigma |-> run.x]]
       ELSE [x |-> next, n |-> run.n + 1,
             ret |-> IF run.n + 1 >= iterations
                     THEN [kind |-> "err", sigma |-> next]
                     ELSE [kind |-> "running"]]

\* call_iv_guess: the start of the run
call_iv_guess(price, s, k, rate, maturity, initial_guess) == Running(initial_guess)

\* call_iv
call_iv(price, s, k, rate, maturity) ==
    call_iv_guess(price, s, k, rate, maturity,
                  approximate_vol(price, s, k, rate, maturity))

\* put_iv_guess: the start of the run
put_iv_guess(price, s, k, rate, maturity, initial_guess) == Running(initial_guess)

\* c_price of put_iv: price + s - k * (-rate * maturity).exp()
c_price(price, s, k, rate, maturity) ==
    price + (s * 1000 - k * exp_neg(rate * maturity)) * 10000

\* put_iv
put_iv(price, s, k, rate, maturity) ==
    put_iv_guess(price, s, k, rate, maturity,
                 approximate_vol(c_price(price, s, k, rate, maturity),
                                 s, k, rate, maturity))

\* observed put prices: 0, 0.3, and the put price at sigma 0.5 and at sigma 1
IvPrices(s, k, rate, maturity) ==
    {0, 3000000} \cup {put(s, k, rate, sg, maturity) : sg \in {1, 2}}

\* the inputs of one evaluation of put_iv next to call_iv on the call price
\* that put-call parity gives
IvNew ==
    /\ \E s \in Spots, k \in Spots, rate \in Rates, maturity \in Maturities :
         \E price \in IvPrices(s, k, rate, maturity) :
            pr_in = [price |-> price, s |-> s, k |-> k, rate |-> rate,
                     maturity |-> maturity]
    /\ pr_out = [call |-> 0, put |-> 0]
    /\ pr_pc = "iv_input"

\* put_iv(price, ..) and call_iv(c_price, ..) up to the call of find_root
IvStart ==
    /\ pr_pc = "iv_input"
    /\ pr_out' = [put_iv |-> put_iv(pr_in.price, pr_in.s, pr_in.k, pr_in.rate,
                                    pr_in.maturity),
                  call_iv |-> call_iv(c_price(pr_in.price, pr_in.s, pr_in.k,
                                              pr_in.rate, pr_in.maturity),
                                      pr_in.s, pr_in.k, pr_in.rate,
                                      pr_in.maturity)]
    /\ pr_pc' = "find_root"
    /\ UNCHANGED <<pr_in, candleVars, volVars, bsVars>>

\* one iteration of find_root in put_iv_guess and in call_iv_guess
FindRootIteration ==
    /\ pr_pc = "find_root"
    /\ pr_out' = [put_iv |-> find_root("put", pr_in.price, pr_in.s, pr_in.k,
                                       pr_in.rate, pr_in.maturity,
                                       pr_out.put_iv),
                  call_iv |-> find_root("call",
                                        c_price(pr_in.price, pr_in.s, pr_in.k,
                                                pr_in.rate, pr_in.maturity),
                                        pr_in.s, pr_in.k, pr_in.rate,
                                        pr_in.maturity, pr_out.call_iv)]
    /\ pr_pc' = IF pr_out'.put_iv.ret.kind # "running"
                    /\ pr_out'.call_iv.ret.kind # "running"
                THEN "iv_done" ELSE "find_root"
    /\ UNCHANGED <<pr_in, candleVars, volVars, bsVars>>

\* --------------------------------------------------- black_schools_stream.rs
\* BlackSchoolsStream::new
BSNew(k, d) ==
    /\ strike = k
    /\ discount = d
    /\ bs_ret = [kind |-> "init"]
    /\ bs_poll = [kind |-> "init"]
    /\ bs_woken = FALSE
    /\ bs_errors = {}
    /\ bs_yielded = 0
    /\ bs_price_stream = "open"

\* floor of the square root of a whole number
ISqrt(x) == CHOOSE r \in 0..x : r * r <= x /\ x < (r + 1) * (r + 1)

\* the volatility value in halves; the value is carried by its square
Halves(value) == ISqrt((4 * value.sq.n) \div value.sq.d)

\* black_schools_call(price, strike, discount, volatility): the discount-based
\* call formula; a NaN volatility fails `sqrt_maturity_sigma > 0.0`
black_schools_call(price, k, d, volatility) ==
    IF volatility.nan THEN call_discount(price, k, d, 0)
    ELSE call_discount(price, k, d, Halves(volatility))

\* BlackSchoolsStream::try_handle_price; the value returned is left in bs_ret
bs_try_handle_price(price) ==
    /\ try_handle_price(price)
    /\ bs_ret' = CASE v_ret'.kind = "some" ->
                        [kind |-> "some",
                         value |-> black_schools_call(price.v, strike, discount,
                                                      v_ret'.value)]
                   [] v_ret'.kind = "none" -> [kind |-> "none"]
                   [] OTHER -> [kind |-> "panic"]

\* BlackSchoolsStream::poll_next, upstream arm Poll::Ready(Some(Ok(price)))
BSPollPrice(price) ==
    /\ bs_price_stream = "open"
    /\ bs_ret.kind # "panic"
    /\ v_calls < MaxTicks
    /\ v_in' = Some(price)
    /\ v_calls' = v_calls + 1
    /\ bs_try_handle_price(price)
    /\ bs_poll' = CASE bs_ret'.kind = "some" ->
                         [kind |-> "ready_ok", value |-> bs_ret'.value]
                    [] bs_ret'.kind = "none" -> [kind |-> "pending"]
                    [] OTHER -> [kind |-> "panic"]
    /\ bs_woken' = (bs_ret'.kind = "none")
    /\ bs_yielded' = IF bs_ret'.kind = "some" THEN bs_yielded + 1 ELSE bs_yielded
    /\ UNCHANGED <<strike, discount, bs_errors, bs_price_stream, v_poll, v_woken,
                   overflow_checks, price_stream, candleVars, prVars>>

\* BlackSchoolsStream::poll_next, upstream arm Poll::Ready(Some(Err(err)))
BSPollErr(e) ==
    /\ bs_price_stream = "open"
    /\ bs_ret.kind # "panic"
    /\ bs_poll' = [kind |-> "ready_err", err |-> e]
    /\ bs_woken' = FALSE
    /\ bs_errors' = bs_errors \cup {"upstream"}
    /\ UNCHANGED <<strike, discount, bs_ret, bs_yielded, bs_price_stream,
                   volVars, candleVars, prVars>>

\* BlackSchoolsStream::poll_next, upstream arm Poll::Ready(None)
BSPollEnd ==
    /\ bs_price_stream = "open"
    /\ bs_ret.kind # "panic"
    /\ bs_price_stream' = "ended"
    /\ bs_poll' = [kind |-> "ready_none"]
    /\ bs_woken' = FALSE
    /\ UNCHANGED <<strike, discount, bs_ret, bs_yielded, bs_errors,
                   volVars, candleVars, prVars>>

\* BlackSchoolsStream::poll_next, upstream arm Poll::Pending
BSPollPending ==
    /\ bs_price_stream = "open"
    /\ bs_ret.kind # "panic"
    /\ bs_poll' = [kind |-> "pending"]
    /\ bs_woken' = FALSE
    /\ UNCHANGED <<strike, discount, bs_ret, bs_yielded, bs_errors,
                   bs_price_stream, volVars, candleVars, prVars>>

\* ------------------------------------------------------------ specifications
CandleNext ==
    \/ \E q \in Quotes : CandlePollQuote(q)
    \/ \E e \in TransportErrors : CandlePollErr(e)
    \/ CandlePollEnd
    \/ CandlePollPending

InitCandle ==
    /\ CandleNew
    /\ VolNew(1)
    /\ overflow_checks = TRUE
    /\ BSNew(1, 1000)
    /\ PricingIdle

SpecCandle == InitCandle /\ [][CandleNext]_vars

VolNext ==
    \/ \E price \in PriceInputs : VolPollPrice(price)
    \/ VolPollEnd
    \/ VolPollPending

InitVol ==
    /\ CandleNew
    /\ \E m \in (1..MaxMemory) \cup {2 ^ U32Bits - 1} : VolNew(m)
    /\ overflow_checks \in BOOLEAN
    /\ BSNew(1, 1000)
    /\ PricingIdle

SpecVol == InitVol /\ [][VolNext]_vars

BSNext ==
    \/ \E price \in TickInputs : BSPollPrice(price)
    \/ \E e \in TransportErrors : BSPollErr(e)
    \/ BSPollEnd
    \/ BSPollPending

InitBS ==
    /\ CandleNew
    /\ \E m \in 1..MaxMemory : VolNew(m)
    /\ overflow_checks = TRUE
    /\ \E k \in Spots, d \in {905, 1000} : BSNew(k, d)
    /\ PricingIdle

SpecBS == InitBS /\ [][BSNext]_vars

PricingNext == EvalDiscount \/ EvalRate \/ EvalGreeks \/ EvalAll

InitPricing ==
    /\ CandleNew
    /\ VolNew(1)
    /\ overflow_checks = TRUE
    /\ BSNew(1, 1000)
    /\ PricingNew

SpecPricing == InitPricing /\ [][PricingNext]_vars

IvNext == IvStart \/ FindRootIteration

InitIV ==
    /\ CandleNew
    /\ VolNew(1)
    /\ overflow_checks = TRUE
    /\ BSNew(1, 1000)
    /\ IvNew

SpecIV == InitIV /\ [][IvNext]_vars

\* The three streams side by side: each behaviour drives one of them, the
\* other two stay as constructed (the candle stream and the estimator run
\* next to a default-constructed pricing stream).
CandleIdle == c_poll.kind = "init"

VolIdle == v_poll.kind = "init"

BSIdle == bs_poll.kind = "init"

StreamsNext ==
    \/ VolIdle /\ BSIdle /\ memory = 1 /\ strike = 1 /\ discount = 1000
         /\ CandleNext
    \/ CandleIdle /\ BSIdle /\ strike = 1 /\ discount = 1000 /\ VolNext
    \/ CandleIdle /\ VolIdle /\ BSNext

InitStreams == InitBS

SpecStreams == InitStreams /\ [][StreamsNext]_vars

\* The streams under a driver that polls again after every wake, over
\* upstreams that end: the poll that finds the upstream exhausted is
\* eventually made. Which poll wakes the task does not depend on prices or
\* volumes, so the quotes all carry the same ones.
UnitQuotes == {q \in Quotes : q.price = 1 /\ q.volume = 1}

CandleFairNext ==
    \/ \E q \in UnitQuotes : CandlePollQuote(q)
    \/ \E e \in TransportErrors : CandlePollErr(e)
    \/ CandlePollEnd
    \/ CandlePollPending

StreamsFairNext ==
    \/ VolIdle /\ BSIdle /\ memory = 1 /\ strike = 1 /\ discount = 1000
         /\ CandleFairNext
    \/ CandleIdle /\ BSIdle /\ strike = 1 /\ discount = 1000 /\ VolNext
    \/ CandleIdle /\ VolIdle /\ BSNext

SpecStreamsFair ==
    /\ InitStreams
    /\ [][StreamsFairNext]_vars
    /\ WF_vars(VolIdle /\ BSIdle /\ CandlePollEnd)
    /\ WF_vars(CandleIdle /\ BSIdle /\ VolPollEnd)
    /\ WF_vars(CandleIdle /\ VolIdle /\ BSPollEnd)

\* ============================================================ properties
RECURSIVE SumVolume(_, _)
SumVolume(qs, n) == IF n = 0 THEN 0 ELSE qs[n].volume + SumVolume(qs, n - 1)

MaxPrice(qs, n) == CHOOSE m \in {qs[i].price : i \in 1..n} :
                        \A i \in 1..n : qs[i].price <= m
MinPrice(qs, n) == CHOOSE m \in {qs[i].price : i \in 1..n} :
                        \A i \in 1..n : qs[i].price >= m

InFirstBucket(q) == /\ UNIX_EPOCH <= q.timestamp
                    /\ q.timestamp < UNIX_EPOCH + candle_duration

\* C1: quotes with non-decreasing timestamps that all fall in the first bucket
\* yield no candle; the first quote at or after the end of that bucket yields
\* exactly one candle: open = price of the very first quote, high / low = the
\* maximum / minimum in-bucket price, close = price of the last in-bucket quote,
\* volume = sum of all in-bucket volumes (first quote included).
C1_FirstBucketCandle ==
    LET n == Len(fed) IN
    /\ (\A i \in 1..n : InFirstBucket(fed[i])) => emitted = <<>>
    /\ ( /\ n >= 2
         /\ \A i \in 1..(n - 1) : InFirstBucket(fed[i])
         /\ fed[n].timestamp >= UNIX_EPOCH + candle_duration )
       => emitted = << [candle |-> [open |-> fed[1].price,
                                    high |-> MaxPrice(fed, n - 1),
                                    low |-> MinPrice(fed, n - 1),
                                    close |-> fed[n - 1].price,
                                    volume |-> SumVolume(fed, n - 1)],
                        start |-> UNIX_EPOCH] >>

\* a try_handle_quote call happens in this step
CandleCall == c_calls' # c_calls

\* C2: once a previous quote is recorded, a quote strictly earlier than it
\* returns an error and no candle and leaves current candle, bucket start and
\* last quote unchanged; a quote with an equal timestamp is accepted.
C2_OldQuoteRejected ==
    [][ (CandleCall /\ last.some) =>
          /\ (c_in'.val.timestamp < last.val.timestamp) =>
                /\ c_ret'.kind = "err"
                /\ c_poll'.kind = "ready_err"
                /\ UNCHANGED <<candle, candle_start, candle_duration, last>>
                /\ emitted' = emitted
          /\ (c_in'.val.timestamp = last.val.timestamp) =>
                /\ c_ret'.kind # "err"
                /\ last' = c_in' ]_vars

\* C2 witness: an equal-timestamp quote was accepted and a later, older quote
\* was answered with the ordering error
C2_Witness ==
    /\ c_ret.kind = "err"
    /\ c_in.val.timestamp < last.val.timestamp
    /\ Len(fed) >= 2
    /\ fed[Len(fed)].timestamp = fed[Len(fed) - 1].timestamp

EmittedStarts(es) == {es[i].start : i \in 1..Len(es)}

\* the gap step of C3 for the quote passed in this step, for every k >= 1
GapStep(pre) ==
    \A k \in 1..MaxTime :
        ( /\ CandleCall
          /\ pre
          /\ candle_start + k * candle_duration <= c_in'.val.timestamp
          /\ c_in'.val.timestamp < candle_start + (k + 1) * candle_duration )
        => /\ c_ret'.kind = "ok_some"
           /\ c_ret'.start = candle_start
           /\ Len(emitted') = Len(emitted) + 1
           /\ candle_start' = candle_start + k * candle_duration
           /\ \A j \in 1..(k - 1) :
                 candle_start + j * candle_duration \in skipped'

C9_UpstreamErrorTerminates ==
    [][ /\ \A e \in TransportErrors :
              CandlePollErr(e) =>
                /\ c_poll' = [kind |-> "ready_err", err |-> e]
                /\ UNCHANGED <<candle, last, candle_start, candle_duration>>
        /\ ("upstream" \in c_errors) => emitted' = emitted ]_vars
\* the window: the N = memory most recently accepted prices
Window == SubSeq(accepted, Len(accepted) - memory + 1, Len(accepted))

RECURSIVE SumSeq(_, _)
SumSeq(xs, n) == IF n = 0 THEN 0 ELSE xs[n] + SumSeq(xs, n - 1)

RECURSIVE SumSquares(_, _)
SumSquares(xs, n) == IF n = 0 THEN 0 ELSE xs[n] * xs[n] + SumSquares(xs, n - 1)

\* mean squared deviation from the mean of the n values xs
PopulationVariance(xs, n) ==
    Rat(n * SumSquares(xs, n) - SumSeq(xs, n) * SumSeq(xs, n), n * n)

\* C4: while fewer than N finite prices have been fed, every call of
\* try_handle_price returned None.
C4_NoEmissionBeforeWindow ==
    Len(accepted) < memory => v_ret.kind # "some"

\* C5: once at least N finite prices are accepted, the value emitted on an
\* accepted price is the population standard deviation of the N most recently
\* accepted prices.
C5_EmitsWindowStdDev ==
    (v_ret.kind = "some" /\ Len(accepted) >= memory) =>
        /\ ~v_ret.value.nan
        /\ v_ret.value.sq = PopulationVariance(Window, memory)

\* C6: N identical finite prices fed to a fresh estimator yield exactly 0.0 on
\* the N-th price.
C6_IdenticalPricesZero ==
    ( /\ Len(accepted) = memory
      /\ v_calls = memory
      /\ \A i \in 1..Len(accepted) : accepted[i] = accepted[1] )
    => /\ v_ret.kind = "some"
       /\ v_ret.value = [nan |-> FALSE, sq |-> RatZero]

\* C7: a NaN or infinite price returns None and leaves every field of the
\* estimator unchanged.
C7_NonFiniteDropped ==
    [][ (v_calls' # v_calls /\ v_in'.val \in NonFinitePrices) =>
            /\ v_ret'.kind = "none"
            /\ v_poll'.kind = "pending"
            /\ UNCHANGED <<memory, last_variance, count, sum_prices>> ]_vars

\* C7 witness: a non-finite price was dropped after a finite price had been
\* taken into the running sums
C7_Witness ==
    /\ v_ret.kind = "none"
    /\ v_in.some
    /\ v_in.val \in NonFinitePrices
    /\ count >= 1
    /\ sum_prices # 0
\* C8: the live-pricing stream returns an option price on a tick exactly when
\* its estimator emits on that tick; none before N prices were accepted, and
\* from then on one per accepted price, computed from the price of the tick,
\* the strike, the discount and the volatility just emitted.
C8_PriceIffWindowFilled ==
    /\ (bs_ret.kind = "some") <=> (v_ret.kind = "some")
    /\ (bs_ret.kind = "some") => Len(accepted) >= memory
    /\ (bs_ret.kind = "some") =>
            bs_ret.value = black_schools_call(v_in.val.v, strike, discount,
                                              v_ret.value)
    /\ bs_yielded = max_or_zero(Len(accepted) - memory + 1)

\* C10 as stated: call - put = S - K*d for every valid input, the degenerate
\* branch sigma*sqrt(T) = 0 included, for the discount and the rate variants.
C10_ParityAllInputs ==
    /\ (pr_pc = "discount") =>
            pr_out.call - pr_out.put
                = (pr_in.s * 1000 - pr_in.k * pr_in.discount) * 10000
    /\ (pr_pc = "rate") =>
            pr_out.call - pr_out.put
                = (pr_in.s * 1000
                     - pr_in.k * exp_neg(pr_in.rate * pr_in.maturity)) * 10000

\* C10 amended: call - put = S - K*d whenever sigma*sqrt(T) > 0; in the
\* degenerate branch call - put = S - K.
C10_ParityNonDegenerate ==
    /\ (pr_pc = "discount" /\ pr_in.sqrt_maturity_sigma > 0) =>
            pr_out.call - pr_out.put
                = (pr_in.s * 1000 - pr_in.k * pr_in.discount) * 10000
    /\ (pr_pc = "rate" /\ maturity_sqrt(pr_in.maturity) * pr_in.sigma > 0) =>
            pr_out.call - pr_out.put
                = (pr_in.s * 1000
                     - pr_in.k * exp_neg(pr_in.rate * pr_in.maturity)) * 10000
    /\ (pr_pc = "discount" /\ pr_in.sqrt_maturity_sigma = 0) =>
            pr_out.call - pr_out.put = (pr_in.s - pr_in.k) * 10000000
    /\ (pr_pc = "rate" /\ maturity_sqrt(pr_in.maturity) * pr_in.sigma = 0) =>
            pr_out.call - pr_out.put = (pr_in.s - pr_in.k) * 10000000

\* C10 witness: call and put were evaluated out of the money for the call,
\* with positive volatility and a discount factor other than 1
C10_Witness ==
    /\ pr_pc = "rate"
    /\ maturity_sqrt(pr_in.maturity) * pr_in.sigma > 0
    /\ pr_in.rate * pr_in.maturity # 0
    /\ pr_in.s < pr_in.k
    /\ pr_out.call > 0
    /\ pr_out.put > 0

\* the intrinsic limits of the twelve outputs
IntrinsicLimits(s, k) ==
    [call_price |-> IF s > k THEN (s - k) * 10000000 ELSE 0,
     call_delta |-> IF s > k THEN 10000 ELSE 0,
     call_gamma |-> 0, call_theta |-> 0, call_vega |-> 0, call_rho |-> 0,
     put_price |-> IF k > s THEN (k - s) * 10000000 ELSE 0,
     put_delta |-> IF k > s THEN -10000 ELSE 0,
     put_gamma |-> 0, put_theta |-> 0, put_vega |-> 0, put_rho |-> 0]

\* C11: whenever sigma*sqrt(T) is not strictly positive every pricing function
\* returns its intrinsic limit: call = max(S-K, 0), put = max(K-S, 0), call
\* delta 1 if S > K else 0, put delta -1 if K > S else 0, and gamma, vega,
\* theta and rho 0; for the standalone functions and for every field of
\* compute_all. No division by sigma*sqrt(T) is evaluated on that branch.
C11_DegenerateIntrinsic ==
    /\ (pr_pc = "discount" /\ pr_in.sqrt_maturity_sigma <= 0) =>
            /\ pr_out.call = IntrinsicLimits(pr_in.s, pr_in.k).call_price
            /\ pr_out.put = IntrinsicLimits(pr_in.s, pr_in.k).put_price
    /\ (pr_pc = "rate" /\ maturity_sqrt(pr_in.maturity) * pr_in.sigma <= 0) =>
            /\ pr_out.call = IntrinsicLimits(pr_in.s, pr_in.k).call_price
            /\ pr_out.put = IntrinsicLimits(pr_in.s, pr_in.k).put_price
    /\ (pr_pc \in {"greeks", "all"}
            /\ maturity_sqrt(pr_in.maturity) * pr_in.sigma <= 0) =>
            pr_out = IntrinsicLimits(pr_in.s, pr_in.k)

\* C11 witness: compute_all was evaluated in the money for the call with a
\* positive sigma at maturity 0 and a non-zero rate
C11_Witness ==
    /\ pr_pc = "all"
    /\ pr_in.maturity = 0
    /\ pr_in.sigma > 0
    /\ pr_in.rate # 0
    /\ pr_in.s > pr_in.k
    /\ pr_out.call_delta = 10000
    /\ pr_out.call_price > 0

\* the quote q handed to try_handle_quote in this step crosses the bucket end
Crossing == c_in'.val.timestamp >= candle_start + candle_duration

\* the effect C13 describes for a step of try_handle_quote
CrossEffect ==
    /\ c_ret' = [kind |-> "ok_some",
                 candle |-> [candle EXCEPT !.close = last.val.price],
                 start |-> candle_start]
    /\ emitted' = Append(emitted, [candle |-> c_ret'.candle,
                                   start |-> candle_start])
    /\ candle' = [open |-> c_in'.val.price, high |-> c_in'.val.price,
                  low |-> c_in'.val.price, close |-> 0,
                  volume |-> c_in'.val.volume]

C14_SameBucketFold ==
    [][(CandleCall /\ last.some /\ ~Crossing
            /\ c_in'.val.timestamp >= last.val.timestamp)
        => /\ c_ret' = [kind |-> "ok_none"]
           /\ c_poll' = [kind |-> "pending"]
           /\ emitted' = emitted
           /\ candle' = [open |-> candle.open, close |-> candle.close,
                         high |-> IF c_in'.val.price > candle.high
                                  THEN c_in'.val.price ELSE candle.high,
                         low |-> IF c_in'.val.price < candle.low
                                 THEN c_in'.val.price ELSE candle.low,
                         volume |-> candle.volume + c_in'.val.volume]
           /\ last' = c_in'
           /\ candle_start' = candle_start
           /\ candle_duration' = candle_duration]_vars

\* C14 witness: a quote was folded into a candle that already held volume and
\* raised its high
C14_Witness ==
    /\ c_ret.kind = "ok_none"
    /\ Len(fed) >= 2
    /\ last = c_in
    /\ candle.high = c_in.val.price
    /\ candle.volume > c_in.val.volume
    /\ candle.low < candle.high

\* C15: the first quote is recorded without emitting anything, and the first
\* candle ever emitted is tagged with a bucket start s such that
\* s <= timestamp of the first quote < s + bucket_duration.
C15_FirstQuoteInFirstBucket ==
    /\ (c_calls = 1) => (emitted = <<>> /\ Len(fed) = 1 /\ last = Some(fed[1]))
    /\ (Len(emitted) >= 1) =>
            /\ emitted[1].start <= fed[1].timestamp
            /\ fed[1].timestamp < emitted[1].start + candle_duration

\* C16: once the stream has yielded an ordering error it emits no further
\* candle and handles no further quote.
C16_OrderingErrorFatal ==
    [][("old_quote" \in c_errors) =>
            /\ emitted' = emitted
            /\ candle' = candle
            /\ last' = last
            /\ candle_start' = candle_start]_vars

\* C20: after at least one candle was emitted the last recorded quote lies in
\* the current bucket: bucket_start <= last_quote.timestamp < bucket_start +
\* bucket_duration.
C20_LastQuoteInBucket ==
    (Len(emitted) >= 1) =>
        /\ last.some
        /\ candle_start <= last.val.timestamp
        /\ last.val.timestamp < candle_start + candle_duration

\* C20 witness: a gap was crossed and the last quote lies strictly inside the
\* bucket the start jumped to
C20_Witness ==
    /\ Len(emitted) >= 1
    /\ skipped # {}
    /\ last.some
    /\ last.val.timestamp > candle_start

\* C17: every activation of CandleStream, VolatilityStream and
\* BlackSchoolsStream pulls at most one upstream item and then yields exactly
\* one downstream item or signals Pending: no step consumes two items or
\* yields two, an item is yielded only by a step that pulled one, and the
\* aggregator holds one candle and at most one last quote.
C17_OneInOneOut ==
    [][/\ c_calls' \in {c_calls, c_calls + 1}
       /\ v_calls' \in {v_calls, v_calls + 1}
       /\ Len(fed') <= Len(fed) + 1
       /\ Len(accepted') <= Len(accepted) + 1
       /\ Len(emitted') \in {Len(emitted), Len(emitted) + 1}
       /\ bs_yielded' \in {bs_yielded, bs_yielded + 1}
       /\ (Len(emitted') # Len(emitted)) <=>
                (c_calls' # c_calls /\ c_poll'.kind = "ready_ok")
       /\ (c_calls' # c_calls) =>
                c_poll'.kind \in {"ready_ok", "ready_err", "pending"}
       /\ (v_calls' # v_calls /\ BSIdle') =>
                v_poll'.kind \in {"ready", "pending"}
       /\ (bs_yielded' # bs_yielded) <=>
                (v_calls' # v_calls /\ bs_poll'.kind = "ready_ok")
       /\ (v_calls' # v_calls /\ ~BSIdle') =>
                bs_poll'.kind \in {"ready_ok", "pending"}
       /\ DOMAIN candle' = {"open", "high", "low", "close", "volume"}
       /\ last' = None \/ (last'.some /\ last'.val \in Quotes)
      ]_vars

\* C17 witness: three quotes were pulled in three activations and two of them
\* each made the stream yield one candle
C17_Witness ==
    /\ c_calls = 3
    /\ Len(emitted) = 2
    /\ c_poll.kind = "ready_ok"
    /\ last.some

\* C19: for every N >= 1 and after any number of accepted prices the u32
\* computations of try_handle_price (memory - 1, memory + 1, (memory - 1) *
\* count, (memory + 1) * (count + 1), count + 1) never leave the range of u32,
\* and the call on a finite price returns normally.
C19_NoArithmeticOverflow ==
    [][(v_calls' # v_calls /\ ~is_non_finite(v_in'.val))
            => (~u32_overflow /\ v_ret'.kind # "panic")]_vars

\* C18: put_iv(price, S, K, r, T) runs the same solver steps and returns the
\* same result as call_iv(price + S - K*e^{-rT}, S, K, r, T), from the same
\* initial guess: the two runs hold the same iterate after every iteration and
\* end in the same result.
C18_PutIvIsCallIv ==
    (pr_pc \in {"find_root", "iv_done"}) => pr_out.put_iv = pr_out.call_iv

\* |price(sigma) - observed price| <= 1e-6 for the result of a run
WithinTolerance(side, price, run) ==
    LET f == obj_fn(side, price, pr_in.s, pr_in.k, pr_in.rate, run.ret.sigma,
                    pr_in.maturity)
    IN f.class = "finite" /\ f.v <= 10 /\ f.v >= -10

\* what C12 says of one run of find_root
SolverContract(side, price, run) ==
    /\ run.n <= 10000
    /\ (run.ret.kind = "running") => run.n < 10000
    /\ (run.ret.kind = "ok") => WithinTolerance(side, price, run)
    /\ (run.ret.kind = "err") =>
            /\ run.n = 10000
            /\ run.ret.sigma = run.x

StartsAdvance ==
    LET starts == [i \in 1..(Len(emitted) + 1) |->
                      IF i <= Len(emitted) THEN emitted[i].start ELSE candle_start]
    IN \A i \in 1..(Len(starts) - 1) :
          /\ starts[i] < starts[i + 1]
          /\ (starts[i + 1] - starts[i]) % candle_duration = 0
          /\ (starts[i + 1] - starts[i]) \div candle_duration >= 1

\* a step that hands a candle to the caller
EmitsCandle == Len(emitted') = Len(emitted) + 1

\* C21: over any sequence of quotes the bucket starts attached to successively
\* emitted candles are strictly increasing and differ by a positive whole
\* multiple of the bucket duration; the bucket start never decreases and
\* changes only on a step that emits a candle
C21_BucketStartsAdvance ==
    /\ []StartsAdvance
    /\ [][/\ candle_start' >= candle_start
          /\ (candle_start' # candle_start) => EmitsCandle
          /\ EmitsCandle => c_poll'.start = candle_start]_vars

\* two candles were emitted and a whole empty bucket lies between their starts
C21_Witness ==
    /\ Len(emitted) = 2
    /\ emitted[2].start - emitted[1].start = 2 * candle_duration
    /\ candle_start > emitted[2].start

\* ------------------------------------------------------------------- C22
\* positions in fed of the accepted quotes of the bucket starting at b; the
\* very first quote is only recorded as last and belongs to no candle
BucketQuotes(b) ==
    {i \in 2..Len(fed) : /\ b <= fed[i].timestamp
                         /\ fed[i].timestamp < b + candle_duration}

SetMin(S) == CHOOSE x \in S : \A y \in S : x <= y
SetMax(S) == CHOOSE x \in S : \A y \in S : x >= y

WellFormed(e) ==
    LET c == e.candle
        B == BucketQuotes(e.start)
    IN /\ B # {}
       /\ c.open = fed[SetMin(B)].price
       /\ c.close = fed[SetMax(B)].price
       /\ c.low <= c.open /\ c.open <= c.high
       /\ c.low <= c.close /\ c.close <= c.high

VolCall == v_calls' # v_calls /\ BSIdle'

BSCall == v_calls' # v_calls /\ ~BSIdle'

\* a Pending returned by a call that took an item follows a wake_by_ref; any
\* other Pending is the upstream's own, and the upstream holds the waker
WakeBeforePending ==
    /\ (CandleCall /\ c_poll'.kind = "pending") => c_woken'
    /\ (VolCall /\ v_poll'.kind = "pending") => v_woken'
    /\ (BSCall /\ bs_poll'.kind = "pending") => bs_woken'

\* the stream driven in this run has returned Ready(None)
StreamEnded ==
    \/ c_poll.kind = "ready_none"
    \/ v_poll.kind = "ready_none"
    \/ bs_poll.kind = "ready_none"

EndsWithUpstream ==
    /\ [](c_poll.kind = "ready_none" <=> quote_stream = "ended")
    /\ [][(quote_stream' = "ended") =>
             /\ c_poll'.kind = "ready_none"
             /\ emitted' = emitted
             /\ UNCHANGED <<candle, candle_start, last>>]_vars

\* C24 as stated: the stream ends exactly when the upstream ends, without
\* emitting the open candle; a candle is emitted for each quote that has a
\* predecessor and a timestamp at or after bucket_start + bucket_duration and
\* for no other, and over a run the candles number at most the quotes
\* consumed minus one.
C24_CountAnyRun ==
    /\ EndsWithUpstream
    /\ [][EmitsCandle <=> (CandleCall /\ last.some /\ Crossing)]_vars
    /\ [](quote_stream = "ended" => Len(emitted) <= c_calls - 1)

\* C24 amended: the crossing quotes that count are those not older than their
\* predecessor, and the bound holds for a run that consumed at least one
\* quote; a run without quotes emits nothing.
C24_CountAcceptedCrossings ==
    /\ EndsWithUpstream
    /\ [][EmitsCandle <=>
            (CandleCall /\ last.some /\ ~IsOldQuote(c_in'.val, last.val)
                /\ Crossing)]_vars
    /\ [](c_calls >= 1 => Len(emitted) <= c_calls - 1)
    /\ [](c_calls = 0 => Len(emitted) = 0)

\* the upstream ended after three quotes of which the second and the third
\* crossed a bucket end: two candles, and the third quote's candle stays open
C24_Witness ==
    /\ quote_stream = "ended"
    /\ c_poll.kind = "ready_none"
    /\ c_calls = 3
    /\ Len(emitted) = 2
    /\ candle.open = fed[3].price
    /\ candle_start > emitted[2].start

\* ------------------------------------------------------------------- C25
\* the input of the evaluation, as the five arguments see it
Degenerate == maturity_sqrt(pr_in.maturity) * pr_in.sigma <= 0

\* the two results on the input of this evaluation
AllOnInput ==
    compute_all(pr_in.s, pr_in.k, pr_in.rate, pr_in.sigma, pr_in.maturity)

StandaloneOnInput ==
    Standalone(pr_in.s, pr_in.k, pr_in.rate, pr_in.sigma, pr_in.maturity)

\* the result in pr_out comes from the branch the input selects: intrinsic
\* values on the degenerate branch, N(d1) and N(d1) - 1 as deltas otherwise
BranchOfInput ==
    LET disc == exp_neg(pr_in.rate * pr_in.maturity)
        sms == maturity_sqrt(pr_in.maturity) * pr_in.sigma
    IN IF Degenerate
       THEN pr_out = IntrinsicLimits(pr_in.s, pr_in.k)
       ELSE /\ pr_out.call_delta = cum_norm(d1(pr_in.s, pr_in.k, disc, sms))
            /\ pr_out.put_delta = pr_out.call_delta - 10000
            /\ pr_out.call_rho - pr_out.put_rho
                    = pr_in.k * disc * pr_in.maturity * 10000

\* C25: for every input (S, K, r, sigma, T) each of the twelve fields of
\* compute_all equals the result of the corresponding standalone function on
\* the same input (the tabulated normal CDF satisfies
\* cum_norm(-x) = 1 - cum_norm(x)), and both take the degenerate branch for
\* exactly the same inputs
C25_ComputeAllIsStandalone ==
    /\ (pr_pc = "all") => (pr_out = StandaloneOnInput /\ BranchOfInput)
    /\ (pr_pc = "greeks") => (pr_out = AllOnInput /\ BranchOfInput)
    /\ (pr_pc \in {"all", "greeks"}) =>
            \A x \in -8..8 : cum_norm(-x) = 10000 - cum_norm(x)

\* compute_all was evaluated off the money on the non-degenerate branch with a
\* non-zero rate: the put fields obtained through parity and 1 - N(d2) differ
\* from the call fields and none of them is zero
C25_Witness ==
    /\ pr_pc = "all"
    /\ ~Degenerate
    /\ pr_in.rate # 0
    /\ pr_in.s # pr_in.k
    /\ pr_out.put_price > 0
    /\ pr_out.put_theta # pr_out.call_theta
    /\ pr_out.put_rho < 0
    /\ pr_out.call_rho > 0
====
